---- MODULE Spec2Model ----
(***************************************************************************)
(* AnchorMarks Flow Launcher plugin (tooling/flow-launcher-plugin/main.py) *)
(*                                                                         *)
(* Text is a sequence of string fragments: user-typed text and stored      *)
(* values are one character per fragment, literals of the source are one   *)
(* fragment each.  A Python dict is a function whose DOMAIN is the set of  *)
(* keys present.                                                           *)
(***************************************************************************)
EXTENDS Integers, Sequences, FiniteSets, TLC

VARIABLES
    requests,     \* TRUE iff "import requests" succeeded (main.py:12-15)
    config_file,  \* content of config.json on disk
    server_url,   \* self.server_url
    api_key,      \* self.api_key
    offered,      \* actions of the entries the host holds from earlier queries
    lastOp,       \* name of the method the host invoked last
    prevOp,       \* the call before that ("configure_failed": a save that returned False)
    lastArgs,     \* its arguments
    lastRet,      \* its return value: [results, raised, ok]
    effects       \* what the last call did to the outside world, in order

vars == <<requests, config_file, server_url, api_key, offered,
          lastOp, prevOp, lastArgs, lastRet, effects>>

----------------------------------------------------------------------------
(* Bounds *)

MaxTail == 3          \* longest free text typed after a command prefix
MaxBookmarks == 2     \* longest bookmark array the service returns
MaxOffered == 2       \* entries the host remembers in SpecHost

----------------------------------------------------------------------------
(* Python values and string methods *)

PyNone == <<"<None>">>
EmptyDict == [k \in {} |-> <<>>]

\* dict.get(key, default)
Get(d, k, default) == IF k \in DOMAIN d THEN d[k] ELSE default

\* "not v" for a str-or-None value
Falsy(v) == v = <<>> \/ v = PyNone

\* str.isspace for one character
IsSpace(c) == c \in {" ", "\t", "\n"}

RECURSIVE LStrip(_)
LStrip(s) == IF s # <<>> /\ IsSpace(Head(s)) THEN LStrip(Tail(s)) ELSE s

RECURSIVE RStrip(_)
RStrip(s) ==
    IF s # <<>> /\ IsSpace(s[Len(s)]) THEN RStrip(SubSeq(s, 1, Len(s) - 1)) ELSE s

\* str.strip()
Strip(s) == RStrip(LStrip(s))

RECURSIVE RStripSlash(_)
\* str.rstrip('/')
RStripSlash(s) ==
    IF s # <<>> /\ s[Len(s)] = "/" THEN RStripSlash(SubSeq(s, 1, Len(s) - 1)) ELSE s

\* str.startswith(p)
StartsWith(s, p) == Len(s) >= Len(p) /\ SubSeq(s, 1, Len(p)) = p

\* s[n:]
From(s, n) == SubSeq(s, n + 1, Len(s))

\* str.split(" ", 1)
SplitOnce(s) ==
    IF \E i \in 1..Len(s) : s[i] = " "
    THEN LET i == CHOOSE j \in 1..Len(s) :
                      s[j] = " " /\ \A h \in 1..(j - 1) : s[h] # " "
         IN  <<SubSeq(s, 1, i - 1), SubSeq(s, i + 1, Len(s))>>
    ELSE <<s>>

Digit(n) == <<"0", "1", "2", "3", "4", "5", "6", "7", "8", "9">>[n + 1]

RECURSIVE IntStr(_)
\* str(n) for an int n >= 0
IntStr(n) == IF n < 10 THEN <<Digit(n)>> ELSE IntStr(n \div 10) \o <<Digit(n % 10)>>

DigitVal(c) == CHOOSE n \in 0..9 : Digit(n) = c

RECURSIVE StrInt(_)
\* the JSON parser's reading of a number literal
StrInt(s) ==
    IF Len(s) = 1 THEN DigitVal(s[1])
    ELSE 10 * StrInt(SubSeq(s, 1, Len(s) - 1)) + DigitVal(s[Len(s)])

----------------------------------------------------------------------------
(* config.json *)

\* json.dump of one member: numbers are written as digits, strings as text
JsonEncode(k, v) ==
    IF k = "port" THEN [t |-> "number", s |-> IntStr(v)]
    ELSE [t |-> "string", s |-> v]

\* json.load of one member
JsonDecode(tok) == IF tok.t = "number" THEN StrInt(tok.s) ELSE tok.s

json_dump(config) == [k \in DOMAIN config |-> JsonEncode(k, config[k])]
json_load(text) == [k \in DOMAIN text |-> JsonDecode(text[k])]

Absent == [state |-> "absent", text |-> EmptyDict]
Garbage == [state |-> "garbage", text |-> EmptyDict]
JsonFile(config) == [state |-> "object", text |-> json_dump(config)]

\* lines 34-40 and 57-63: the dict read from disk, {} when the file is
\* missing or does not parse
ReadConfig(file) == IF file.state = "object" THEN json_load(file.text) ELSE EmptyDict

DefaultPort == <<"3", "0", "0", "0">>

load_configSwapped(file) ==
    LET config == ReadConfig(file)
        port == IF "port" \in DOMAIN config THEN IntStr(config["port"]) ELSE DefaultPort
        url == IF "server_url" \in DOMAIN config
               THEN config["server_url"] ELSE <<"http://localhost:">> \o port
    IN  [server_url |-> IF "port" \in DOMAIN config
                        THEN <<"http://localhost:">> \o port ELSE url,
         api_key |-> Get(config, "api_key", <<>>)]

load_config(file) ==
    LET config == ReadConfig(file)
        port == IF "port" \in DOMAIN config THEN IntStr(config["port"]) ELSE DefaultPort
        byPort == <<"http://localhost:">> \o port
    IN  [server_url |-> IF "server_url" \in DOMAIN config
                        THEN config["server_url"] ELSE byPort,
         api_key |-> Get(config, "api_key", <<>>)]

\* config["server_url"] = ...; config["api_key"] = ...   (lines 66-67)
Updated(config, su, key) ==
    [k \in DOMAIN config \cup {"server_url", "api_key"} |->
        IF k = "server_url" THEN su ELSE IF k = "api_key" THEN key ELSE config[k]]

IOOutcomes == {"ok", "open_fail", "write_fail"}

save_configEager(file, mem, su, key, io) ==
    [ok |-> io = "ok",
     file |-> IF io = "ok" THEN JsonFile(Updated(ReadConfig(file), su, key))
              ELSE IF io = "write_fail" THEN Garbage ELSE file,
     mem |-> [server_url |-> su, api_key |-> key]]

\* io = "open_fail": open(..., 'w') raises, the file is untouched;
\* io = "write_fail": the file was truncated by open and json.dump raised.
save_config(file, mem, su, key, io) ==
    IF io = "ok"
    THEN [ok |-> TRUE,
          file |-> JsonFile(Updated(ReadConfig(file), su, key)),
          mem |-> [server_url |-> su, api_key |-> key]]
    ELSE [ok |-> FALSE,
          file |-> IF io = "write_fail" THEN Garbage ELSE file,
          mem |-> mem]

----------------------------------------------------------------------------
(* The remote service *)

TopLimit == 10
SearchLimit == 15

\* A decoded JSON body.  Iterating an array yields its items, iterating an
\* object yields its keys (strings), a number is not iterable.
JNull == [t |-> "null", items |-> <<>>, n |-> 0]
JNumber(n) == [t |-> "number", items |-> <<>>, n |-> n]
JArray(items) == [t |-> "array", items |-> items, n |-> 0]
JObject(keys) == [t |-> "object", items |-> keys, n |-> 0]

\* an array item that is a bookmark record, and one that is not an object
Rec(bm) == [isdict |-> TRUE, d |-> bm]
NonRecord == [isdict |-> FALSE, d |-> EmptyDict]

\* bool(value) for a decoded body
Truthy(v) == IF v.t = "number" THEN v.n # 0 ELSE v.items # <<>>

\* What the HTTP exchange comes to: requests.get raises, the status is not
\* 200, the body is not JSON, or the body decodes to a value.
NetException == [kind |-> "exception", body |-> JNull]
Non200 == [kind |-> "non200", body |-> JNull]
BadJson == [kind |-> "badjson", body |-> JNull]
Ok200(body) == [kind |-> "ok", body |-> body]

api_request(endpoint, params, req, su, key, resp) ==
    IF ~req
    THEN [value |-> JNull, effects |-> <<>>]
    ELSE IF Falsy(key)
    THEN [value |-> JNull, effects |-> <<>>]
    ELSE [value |-> IF resp.kind = "ok" THEN resp.body ELSE JNull,
          effects |-> <<[kind |-> "GET",
                         url |-> RStripSlash(su) \o <<"/api">> \o endpoint,
                         key |-> key, params |-> params]>>]

----------------------------------------------------------------------------
(* urllib.parse.urlparse(url).netloc *)

SchemeChars == {"a", "b", "c", "d", "e", "f", "g", "h", "i", "j", "k", "l", "m",
                "n", "o", "p", "q", "r", "s", "t", "u", "v", "w", "x", "y", "z",
                "0", "1", "2", "3", "4", "5", "6", "7", "8", "9", "+", "-", "."}
Letters == SchemeChars \ {"0", "1", "2", "3", "4", "5", "6", "7", "8", "9", "+", "-", "."}

\* index of the first character of s at or after i that is in cs, else Len(s)+1
FirstOf(s, i, cs) ==
    IF \E j \in i..Len(s) : s[j] \in cs
    THEN CHOOSE j \in i..Len(s) : s[j] \in cs /\ \A h \in i..(j - 1) : s[h] \notin cs
    ELSE Len(s) + 1

\* the text after "scheme:", or all of it when there is no scheme
AfterScheme(url) ==
    LET i == FirstOf(url, 1, {":"})
    IN  IF /\ i > 1 /\ i <= Len(url)
           /\ url[1] \in Letters
           /\ \A j \in 1..(i - 1) : url[j] \in SchemeChars
        THEN SubSeq(url, i + 1, Len(url))
        ELSE url

Netloc(url) ==
    LET rest == AfterScheme(url)
    IN  IF Len(rest) >= 2 /\ rest[1] = "/" /\ rest[2] = "/"
        THEN SubSeq(rest, 3, FirstOf(rest, 3, {"/", "?", "#"}) - 1)
        ELSE <<>>

----------------------------------------------------------------------------
(* Display entries *)

Info(title, subtitle) ==
    [Title |-> title, SubTitle |-> subtitle, IcoPath |-> <<"icon.png">>]

WithAction(title, subtitle, method, parameters) ==
    [Title |-> title, SubTitle |-> subtitle, IcoPath |-> <<"icon.png">>,
     JsonRPCAction |-> [method |-> method, parameters |-> parameters]]

HasAction(e) == "JsonRPCAction" \in DOMAIN e

_bookmark_to_result(bookmark) ==
    LET title == Get(bookmark, "title", Get(bookmark, "url", <<"Untitled">>))
        url == Get(bookmark, "url", <<>>)
        click_count == Get(bookmark, "click_count", 0)
        domain == Netloc(url)
        \* the separator of the source is " (U+2022 bullet) "
        subtitle == domain \o (IF click_count > 0
                               THEN <<" (bullet) ">> \o IntStr(click_count) \o <<" clicks">>
                               ELSE <<>>)
    IN  WithAction(title, subtitle, "open_bookmark", <<Get(bookmark, "id", <<>>), url>>)

----------------------------------------------------------------------------
(* query *)

Returned(entries, sent) == [results |-> entries, raised |-> FALSE, effects |-> sent]
Raised(sent) == [results |-> <<>>, raised |-> TRUE, effects |-> sent]

ConfigPrefix == <<"c", "o", "n", "f", "i", "g", " ">>
AddPrefix == <<"a", "d", "d", " ">>
OpenWord == <<"o", "p", "e", "n">>

PypiUrl == <<"https://pypi.org/project/requests/">>

CannotConnect(su) ==
    Info(<<"Cannot connect to AnchorMarks">>, <<"Check if server is running at ">> \o su)

AppendAllReversed(results, bookmarks, sent) ==
    IF bookmarks.t = "number" THEN Raised(sent)
    ELSE IF \E i \in 1..Len(bookmarks.items) : ~bookmarks.items[i].isdict THEN Raised(sent)
    ELSE Returned(results \o [i \in 1..Len(bookmarks.items) |->
                                  _bookmark_to_result(
                                      bookmarks.items[Len(bookmarks.items) + 1 - i].d)],
                  sent)

\* "for bm in bookmarks: results.append(self._bookmark_to_result(bm))" after
\* the entries already in results.  Iterating a number raises TypeError,
\* calling .get on an item that is not a dict raises AttributeError.
AppendAll(results, bookmarks, sent) ==
    IF bookmarks.t = "number" THEN Raised(sent)
    ELSE IF \E i \in 1..Len(bookmarks.items) : ~bookmarks.items[i].isdict THEN Raised(sent)
    ELSE Returned(results \o [i \in 1..Len(bookmarks.items) |->
                                  _bookmark_to_result(bookmarks.items[i].d)],
                  sent)

Usage == Info(<<"Configure AnchorMarks">>, <<"Usage: lv config <server_url> <api_key>">>)

Confirmation(su, key) ==
    WithAction(<<"Set API Key and connect to ">> \o su,
               <<"Press Enter to save configuration">>, "configure", <<su, key>>)

ConfigCommandLoose(query) ==
    LET parts == SplitOnce(Strip(From(query, 7)))
    IN  IF Len(parts) = 2 THEN <<Confirmation(parts[1], parts[2])>>
        ELSE <<Confirmation(parts[1], <<>>)>>

ConfigCommandNoStrip(query) ==
    LET parts == SplitOnce(From(query, 7))
    IN  IF Len(parts) = 2 THEN <<Confirmation(parts[1], parts[2])>> ELSE <<Usage>>

\* lines 115-131
ConfigCommand(query) ==
    LET parts == SplitOnce(Strip(From(query, 7)))
    IN  IF Len(parts) = 2 THEN <<Confirmation(parts[1], parts[2])>> ELSE <<Usage>>

\* lines 142-172
TopBookmarks(req, su, key, resp) ==
    LET r == api_request(<<"/quick-search">>, [limit |-> TopLimit], req, su, key, resp)
        bookmarks == r.value
    IN  IF bookmarks.t = "null" THEN Returned(<<CannotConnect(su)>>, r.effects)
        ELSE IF ~Truthy(bookmarks)
        THEN Returned(<<WithAction(<<"No bookmarks found">>,
                                   <<"Add some bookmarks in AnchorMarks">>,
                                   "open_url", <<su>>)>>, r.effects)
        ELSE AppendAll(<<Info(<<"Your Top Bookmarks">>,
                              <<"Type to search or select a bookmark below">>)>>,
                       bookmarks, r.effects)

\* lines 200-220
Search(query, req, su, key, resp) ==
    LET r == api_request(<<"/quick-search">>, [q |-> query, limit |-> SearchLimit],
                         req, su, key, resp)
        bookmarks == r.value
    IN  IF bookmarks.t = "null" THEN Returned(<<CannotConnect(su)>>, r.effects)
        ELSE IF ~Truthy(bookmarks)
        THEN Returned(<<Info(<<"No bookmarks found for '">> \o query \o <<"'">>,
                             <<"Try a different search term">>)>>, r.effects)
        ELSE AppendAll(<<>>, bookmarks, r.effects)

AddEntry(url) ==
    WithAction(<<"Add bookmark: ">> \o url,
               <<"Press Enter to add this URL to AnchorMarks">>, "add_bookmark", <<url>>)

OpenEntry(su) ==
    WithAction(<<"Open AnchorMarks">>, <<"Open ">> \o su \o <<" in browser">>,
               "open_url", <<su>>)

CommandsNoStrip(query, req, su, key, resp) ==
    LET url == From(query, 4)
    IN  IF StartsWith(query, AddPrefix) /\ url # <<>>
        THEN Returned(<<AddEntry(url)>>, <<>>)
        ELSE IF Strip(query) = OpenWord THEN Returned(<<OpenEntry(su)>>, <<>>)
        ELSE Search(query, req, su, key, resp)

\* lines 175-220: the add command, the open command, then the search
Commands(query, req, su, key, resp) ==
    LET url == Strip(From(query, 4))
    IN  IF StartsWith(query, AddPrefix) /\ url # <<>>
        THEN Returned(<<AddEntry(url)>>, <<>>)
        ELSE IF Strip(query) = OpenWord THEN Returned(<<OpenEntry(su)>>, <<>>)
        ELSE Search(query, req, su, key, resp)

MissingRequests ==
    WithAction(<<"Missing 'requests' library">>, <<"Run: pip install requests">>,
               "open_url", <<PypiUrl>>)

NotConfigured ==
    Info(<<"AnchorMarks not configured">>,
         <<"Type: lv config http://localhost:3000 your_api_key">>)

queryNoKeyCheck(q, req, su, key, resp) ==
    IF ~req THEN Returned(<<MissingRequests>>, <<>>)
    ELSE IF StartsWith(q, ConfigPrefix) THEN Returned(ConfigCommand(q), <<>>)
    ELSE IF Strip(q) = <<>> THEN TopBookmarks(req, su, key, resp)
    ELSE Commands(q, req, su, key, resp)

query(q, req, su, key, resp) ==
    IF ~req THEN Returned(<<MissingRequests>>, <<>>)
    ELSE IF StartsWith(q, ConfigPrefix) THEN Returned(ConfigCommand(q), <<>>)
    ELSE IF Falsy(key) THEN Returned(<<NotConfigured>>, <<>>)
    ELSE IF Strip(q) = <<>> THEN TopBookmarks(req, su, key, resp)
    ELSE Commands(q, req, su, key, resp)

----------------------------------------------------------------------------
(* The confirmed actions: what each sends, in order *)

Browser(url) == [kind |-> "browser", url |-> url]

\* lines 252-254
open_url(url) == <<Browser(url)>>

\* lines 256-270; a failure of the POST is swallowed
open_bookmark(bookmark_id, url, req, su, key) ==
    (IF ~Falsy(bookmark_id) /\ req
     THEN <<[kind |-> "POST",
             url |-> su \o <<"/api/bookmarks/">> \o bookmark_id \o <<"/click">>,
             key |-> key]>>
     ELSE <<>>) \o <<Browser(url)>>

\* lines 272-292; a failure of the POST is swallowed
add_bookmark(url, req, su, key) ==
    IF ~req THEN <<>>
    ELSE <<[kind |-> "POST", url |-> su \o <<"/api/bookmarks">>, key |-> key,
            json |-> [url |-> url]]>>

----------------------------------------------------------------------------
(* Inputs *)

\* d1, d2, d3 have disjoint key sets
Merge(d1, d2, d3) ==
    [k \in DOMAIN d1 \cup DOMAIN d2 \cup DOMAIN d3 |->
        IF k \in DOMAIN d1 THEN d1[k] ELSE IF k \in DOMAIN d2 THEN d2[k] ELSE d3[k]]

Opt(k, values) == {EmptyDict} \cup {[j \in {k} |-> v] : v \in values}

\* config.json as the user may have left it: missing, unparsable, or an
\* object with any of the keys port, server_url, api_key
FileConfigs ==
    {Merge(p, s, a) : p \in Opt("port", {80}),
                      s \in Opt("server_url", {<<"s", "/">>}),
                      a \in Opt("api_key", {<<>>, <<"k">>})}
InitFiles == {Absent, Garbage} \cup {JsonFile(c) : c \in FileConfigs}

TailChars == {" ", "\t", "u", "k"}
Tails == UNION {[1..n -> TailChars] : n \in 0..MaxTail}
Prefixes == {<<>>, ConfigPrefix, AddPrefix, OpenWord, <<"c", "o", "n", "f", "i", "g">>}
Queries == {p \o t : p \in Prefixes, t \in Tails}

BookmarkUrl == <<"h", ":", "/", "/", "d", "/", "p">>

\* bookmark records: every combination of a title and a url being missing,
\* null, empty or set
TitledBookmarks ==
    {Merge(t, u, [id |-> <<"7">>]) :
        t \in Opt("title", {PyNone, <<>>, <<"T">>}),
        u \in Opt("url", {<<>>, BookmarkUrl})}

B1 == [id |-> <<"1">>, url |-> BookmarkUrl, title |-> <<"T">>, click_count |-> 5]
B2 == [url |-> <<"d">>, click_count |-> 0]

ListItems == {Rec(B1), Rec(B2), NonRecord}
Arrays ==
    UNION {[1..n -> ListItems] : n \in 0..MaxBookmarks}
        \cup {<<Rec(b)>> : b \in TitledBookmarks}

Bodies ==
    {JNull, JNumber(0), JNumber(5), JObject(<<>>), JObject(<<NonRecord>>)}
        \cup {JArray(a) : a \in Arrays}

Responses == {NetException, Non200, BadJson} \cup {Ok200(b) : b \in Bodies}

\* what a session types and gets back
HostQueries ==
    {<<>>, <<" ">>, <<"u">>, OpenWord, AddPrefix, AddPrefix \o <<"u">>,
     ConfigPrefix \o <<"u">>, ConfigPrefix \o <<"u", " ", "k">>,
     ConfigPrefix \o <<"k", " ", "u">>}
HostResponses ==
    {NetException, Ok200(JArray(<<>>)), Ok200(JArray(<<Rec(B1)>>)),
     Ok200(JArray(<<Rec(B2), Rec(B1)>>)), Ok200(JObject(<<NonRecord>>))}

----------------------------------------------------------------------------
(* State machine *)

NoReturn == [results |-> <<>>, raised |-> FALSE, ok |-> TRUE]

Init ==
    /\ requests \in BOOLEAN
    /\ config_file \in InitFiles
    /\ server_url = load_config(config_file).server_url
    /\ api_key = load_config(config_file).api_key
    /\ offered = {}
    /\ lastOp = "init"
    /\ prevOp = "init"
    /\ lastArgs = [none |-> TRUE]
    /\ lastRet = NoReturn
    /\ effects = <<>>

Called(op) ==
    /\ lastOp' = op
    /\ prevOp' = IF lastOp = "configure" /\ ~lastRet.ok THEN "configure_failed" ELSE lastOp

ActionsOf(results) ==
    {results[i].JsonRPCAction : i \in {j \in 1..Len(results) : HasAction(results[j])}}

QueryApplying(q, resp) ==
    LET r == query(q, requests, server_url, api_key, resp)
        new == ActionsOf(r.results)
        cfg == {a \in new : a.method = "configure"}
        a == CHOOSE x \in cfg : TRUE
        saved == save_config(config_file, [server_url |-> server_url, api_key |-> api_key],
                             a.parameters[1], a.parameters[2], "ok")
    IN  /\ Called("query")
        /\ lastArgs' = [query |-> q, resp |-> resp]
        /\ lastRet' = [results |-> r.results, raised |-> r.raised, ok |-> TRUE]
        /\ effects' = r.effects
        /\ offered' = IF Cardinality(offered \cup new) <= MaxOffered
                      THEN offered \cup new ELSE new
        /\ config_file' = IF cfg = {} THEN config_file ELSE saved.file
        /\ server_url' = IF cfg = {} THEN server_url ELSE saved.mem.server_url
        /\ api_key' = IF cfg = {} THEN api_key ELSE saved.mem.api_key
        /\ UNCHANGED requests

\* The host calls query(q); resp is what the service answers if it is asked.
\* The host keeps the entries of earlier queries while they fit.
Query(q, resp) ==
    LET r == query(q, requests, server_url, api_key, resp)
        new == ActionsOf(r.results)
    IN  /\ Called("query")
        /\ lastArgs' = [query |-> q, resp |-> resp]
        /\ lastRet' = [results |-> r.results, raised |-> r.raised, ok |-> TRUE]
        /\ effects' = r.effects
        /\ offered' = IF Cardinality(offered \cup new) <= MaxOffered
                      THEN offered \cup new ELSE new
        /\ UNCHANGED <<requests, config_file, server_url, api_key>>

OpenUrl(a) ==
    /\ a \in offered /\ a.method = "open_url"
    /\ Called("open_url")
    /\ lastArgs' = [url |-> a.parameters[1]]
    /\ lastRet' = NoReturn
    /\ effects' = open_url(a.parameters[1])
    /\ UNCHANGED <<requests, config_file, server_url, api_key, offered>>

OpenBookmark(a) ==
    /\ a \in offered /\ a.method = "open_bookmark"
    /\ Called("open_bookmark")
    /\ lastArgs' = [bookmark_id |-> a.parameters[1], url |-> a.parameters[2]]
    /\ lastRet' = NoReturn
    /\ effects' = open_bookmark(a.parameters[1], a.parameters[2],
                                requests, server_url, api_key)
    /\ UNCHANGED <<requests, config_file, server_url, api_key, offered>>

AddBookmark(a) ==
    /\ a \in offered /\ a.method = "add_bookmark"
    /\ Called("add_bookmark")
    /\ lastArgs' = [url |-> a.parameters[1]]
    /\ lastRet' = NoReturn
    /\ effects' = add_bookmark(a.parameters[1], requests, server_url, api_key)
    /\ UNCHANGED <<requests, config_file, server_url, api_key, offered>>

\* configure (lines 294-296) calls save_config and drops its result;
\* lastRet.ok keeps what save_config returned
Configure(a, io) ==
    LET r == save_config(config_file, [server_url |-> server_url, api_key |-> api_key],
                         a.parameters[1], a.parameters[2], io)
    IN  /\ a \in offered /\ a.method = "configure"
        /\ Called("configure")
        /\ lastArgs' = [server_url |-> a.parameters[1], api_key |-> a.parameters[2],
                        was |-> [server_url |-> server_url, api_key |-> api_key]]
        /\ lastRet' = [results |-> <<>>, raised |-> FALSE, ok |-> r.ok]
        /\ effects' = <<>>
        /\ config_file' = r.file
        /\ server_url' = r.mem.server_url
        /\ api_key' = r.mem.api_key
        /\ UNCHANGED <<requests, offered>>

\* The host starts the plugin again: __init__ (lines 23-26) builds a new
\* object from config.json, and nothing is offered yet.
LoadConfig ==
    /\ Called("load_config")
    /\ lastArgs' = [none |-> TRUE]
    /\ lastRet' = NoReturn
    /\ effects' = <<>>
    /\ server_url' = load_config(config_file).server_url
    /\ api_key' = load_config(config_file).api_key
    /\ offered' = {}
    /\ UNCHANGED <<requests, config_file>>

\* the service answers only if it is asked
Answers(q, all) ==
    IF query(q, requests, server_url, api_key, NetException).effects = <<>>
    THEN {NetException} ELSE all

Next ==
    \/ \E q \in HostQueries : \E resp \in Answers(q, HostResponses) : Query(q, resp)
    \/ \E a \in offered : OpenUrl(a)
    \/ \E a \in offered : OpenBookmark(a)
    \/ \E a \in offered : AddBookmark(a)
    \/ \E a \in offered, io \in IOOutcomes : Configure(a, io)
    \/ LoadConfig

Spec == Init /\ [][Next]_vars

\* One query evaluation from every initial configuration, over every query
\* text and every answer of the service within the bounds.
NextQuery ==
    /\ lastOp = "init"
    /\ \E q \in Queries : \E resp \in Answers(q, Responses) : Query(q, resp)

SpecQuery == Init /\ [][NextQuery]_vars

----------------------------------------------------------------------------
(* Properties *)

\* the last call was query(Q), it returned R, and the service answered Resp
Queried == lastOp = "query"
Q == lastArgs.query
R == lastRet.results
Resp == lastArgs.resp

OneEntry == ~lastRet.raised /\ Len(R) = 1

\* the answer is a JSON array of bookmark records
WellFormed(resp) ==
    /\ resp.kind = "ok"
    /\ resp.body.t = "array"
    /\ \A i \in 1..Len(resp.body.items) : resp.body.items[i].isdict

\* the remaining text of a config query, and where its first space is
ConfigRest == Strip(From(Q, 7))
SpaceAt(s, i) == i \in 1..Len(s) /\ s[i] = " " /\ \A h \in 1..(i - 1) : s[h] # " "

\* C1 as stated: with an empty api_key every query returns exactly one entry,
\* that entry carries no action, and nothing is sent to the service.
C1_Original ==
    (Queried /\ api_key = <<>>) =>
        (OneEntry /\ ~HasAction(R[1]) /\ effects = <<>>)

\* C1 amended: with an empty api_key every query returns exactly one entry and
\* sends nothing; the entry carries an action only when the query begins with
\* "config " (the configure confirmation) or the requests library is missing
\* (the open_url entry for the requests project page).
C1_NotConfigured ==
    (Queried /\ api_key = <<>>) =>
        /\ OneEntry
        /\ effects = <<>>
        /\ HasAction(R[1]) =>
              \/ ~requests /\ R[1].JsonRPCAction = [method |-> "open_url",
                                                    parameters |-> <<PypiUrl>>]
              \/ StartsWith(Q, ConfigPrefix) /\ R[1].JsonRPCAction.method = "configure"
        /\ (requests /\ ~StartsWith(Q, ConfigPrefix)) => R[1] = NotConfigured

C1_Witness ==
    /\ Queried /\ api_key = <<>> /\ requests
    /\ StartsWith(Q, AddPrefix) /\ Strip(From(Q, 4)) # <<>>
    /\ R = <<NotConfigured>>

\* C2 as stated: when a quick-search request was sent and failed (exception,
\* non-200 status, or a body that is not a JSON array of bookmark records),
\* query returns exactly the one "Cannot connect" entry and raises nothing.
C2_Original ==
    (Queried /\ effects # <<>> /\ ~WellFormed(Resp)) =>
        (~lastRet.raised /\ R = <<CannotConnect(server_url)>>)

\* C3: a save_config that returned True, followed by load_config, leaves the
\* in-memory server_url and api_key equal to the saved arguments.
C3_RoundTrip ==
    [][(lastOp = "configure" /\ lastRet.ok /\ lastOp' = "load_config") =>
           (server_url' = lastArgs.server_url /\ api_key' = lastArgs.api_key)]_vars

C3_Witness ==
    /\ lastOp = "load_config" /\ prevOp = "configure"
    /\ "port" \in DOMAIN config_file.text
    /\ server_url = <<"u">> /\ api_key = <<"k">>

\* C4: no GET or POST is sent to the service with an empty api_key.
C4_NoRequestWithoutKey ==
    \A i \in 1..Len(effects) :
        effects[i].kind \in {"GET", "POST"} => ~Falsy(effects[i].key)

C4_Witness ==
    /\ lastOp = "add_bookmark" /\ prevOp = "configure"
    /\ Len(effects) = 1 /\ effects[1].kind = "POST" /\ effects[1].key = <<"k">>
    /\ "api_key" \in DOMAIN config_file.text

\* what C5 asks of a query that begins with "config "
C5_Holds ==
    /\ OneEntry
    /\ effects = <<>>
    /\ IF \E i \in 1..Len(ConfigRest) : SpaceAt(ConfigRest, i)
       THEN \E i \in 1..Len(ConfigRest) :
               /\ SpaceAt(ConfigRest, i)
               /\ HasAction(R[1])
               /\ R[1].JsonRPCAction =
                     [method |-> "configure",
                      parameters |-> <<SubSeq(ConfigRest, 1, i - 1),
                                       SubSeq(ConfigRest, i + 1, Len(ConfigRest))>>]
       ELSE R[1] = Usage /\ ~HasAction(R[1])

\* C5 as stated: every query that begins with "config " returns the one
\* configure confirmation when two tokens are present and the one usage entry
\* otherwise.
C5_Original == (Queried /\ StartsWith(Q, ConfigPrefix)) => C5_Holds

\* C5 amended: the same, when the requests library is available.
C5_Config == (Queried /\ requests /\ StartsWith(Q, ConfigPrefix)) => C5_Holds

C5_Witness ==
    /\ Queried /\ requests /\ api_key = <<>>
    /\ Q = ConfigPrefix \o <<"u", " ", "k">>
    /\ R = <<Confirmation(<<"u">>, <<"k">>)>>

\* the empty query was answered with N well-formed bookmarks
TopAnswered ==
    /\ Queried /\ Strip(Q) = <<>> /\ api_key # <<>>
    /\ effects # <<>> /\ WellFormed(Resp)
N == Len(Resp.body.items)
Header == Info(<<"Your Top Bookmarks">>, <<"Type to search or select a bookmark below">>)

\* entry e opens bookmark bm
Opens(e, bm) ==
    /\ HasAction(e)
    /\ e.JsonRPCAction = [method |-> "open_bookmark",
                          parameters |-> <<Get(bm, "id", <<>>), Get(bm, "url", <<>>)>>]

HeaderThenBookmarks ==
    /\ ~lastRet.raised
    /\ Len(R) = N + 1
    /\ R[1] = Header
    /\ \A i \in 1..N : Opens(R[i + 1], Resp.body.items[i].d)

\* C6 as stated: N bookmarks give N+1 entries, the header first, then one
\* entry per bookmark in the service's order, for every N >= 0.
C6_Original == TopAnswered => HeaderThenBookmarks

\* C6 amended: so for N >= 1; for N = 0 the result is the single
\* "No bookmarks found" entry whose action opens the server URL.
C6_TopBookmarks ==
    TopAnswered =>
        IF N >= 1 THEN HeaderThenBookmarks
        ELSE /\ OneEntry
             /\ R[1].Title = <<"No bookmarks found">>
             /\ R[1].JsonRPCAction = [method |-> "open_url", parameters |-> <<server_url>>]

C6_Witness ==
    /\ TopAnswered /\ N = 2
    /\ Resp.body.items[1] # Resp.body.items[2]
    /\ Len(R) = 3

\* what C7 asks of a query that begins with "add "
AddReturned ==
    /\ OneEntry
    /\ HasAction(R[1])
    /\ R[1].JsonRPCAction = [method |-> "add_bookmark",
                             parameters |-> <<Strip(From(Q, 4))>>]
    /\ effects = <<>>

\* C7 as stated: with a non-empty api_key every query that begins with "add "
\* returns the one add_bookmark entry and never reaches the search.
C7_Original == (Queried /\ api_key # <<>> /\ StartsWith(Q, AddPrefix)) => AddReturned

\* C7 amended: so when the requests library is available and the text after
\* "add " is not blank (the URL is that text, trimmed); when it is blank the
\* query goes to the search rule with the whole query as the term.
C7_Add ==
    (Queried /\ requests /\ api_key # <<>> /\ StartsWith(Q, AddPrefix)) =>
        IF Strip(From(Q, 4)) # <<>> THEN AddReturned
        ELSE /\ Len(effects) = 1
             /\ effects[1].kind = "GET"
             /\ effects[1].params = [q |-> Q, limit |-> SearchLimit]

C7_Witness ==
    /\ Queried /\ requests /\ api_key # <<>>
    /\ Q = AddPrefix \o <<" ", "u">>
    /\ R = <<AddEntry(<<"u">>)>>

\* C8: a query evaluation sends at most one GET and nothing else, and leaves
\* config.json and the in-memory server_url and api_key as they were; the
\* file is written only by configure, and the browser and the POSTs are used
\* only by open_url, open_bookmark and add_bookmark.
C8_QueryFrame ==
    [][/\ lastOp' = "query" =>
             /\ server_url' = server_url
             /\ api_key' = api_key
             /\ config_file' = config_file
             /\ Len(effects') <= 1
             /\ \A i \in 1..Len(effects') : effects'[i].kind = "GET"
       /\ config_file' # config_file => lastOp' = "configure"
       /\ (\E i \in 1..Len(effects') : effects'[i].kind \in {"POST", "browser"}) =>
             lastOp' \in {"open_url", "open_bookmark", "add_bookmark"}]_vars

C8_Witness ==
    /\ Queried /\ prevOp = "configure"
    /\ Len(effects) = 1 /\ effects[1].kind = "GET"
    /\ offered # {}

\* the title C9 asks for
Present(bm, k) == k \in DOMAIN bm /\ ~Falsy(bm[k])
ExpectedTitle(bm) ==
    IF Present(bm, "title") THEN bm["title"]
    ELSE IF Present(bm, "url") THEN bm["url"]
    ELSE <<"Untitled">>

\* C9 as stated: the entry of a bookmark is titled with the bookmark's title
\* when it has one (present, not null, not empty), else with its URL when it
\* has one, else "Untitled".
C9_Original ==
    (Queried /\ ~lastRet.raised /\ effects # <<>> /\ WellFormed(Resp) /\ N >= 1) =>
        \A i \in 1..N : R[Len(R) - N + i].Title = ExpectedTitle(Resp.body.items[i].d)

\* C10: save_config returns True or False and raises nothing; after True the
\* in-memory server_url and api_key are its arguments, after False they are
\* what they were before the call.
C10_SaveOutcome ==
    lastOp = "configure" =>
        /\ ~lastRet.raised
        /\ lastRet.ok \in BOOLEAN
        /\ [server_url |-> server_url, api_key |-> api_key] =
              IF lastRet.ok
              THEN [server_url |-> lastArgs.server_url, api_key |-> lastArgs.api_key]
              ELSE lastArgs.was

C10_Witness ==
    /\ lastOp = "configure" /\ ~lastRet.ok
    /\ config_file = Garbage
    /\ lastArgs.api_key # api_key

====
